---- MODULE Spec2Model ----
(***************************************************************************)
(* Model of the data-compare reconciliation engine                         *)
(* (services/csvService: normalizeValue, getNormalizedRow, processSource,  *)
(* runComparison) and of the App component that drives it                  *)
(* (handleRun, handleReset, the ConfigPanel editors).                      *)
(*                                                                         *)
(* Text values are sequences of one-character strings, so that trimming,   *)
(* zero stripping, joining and date parsing are computed character by      *)
(* character as the code computes them.                                    *)
(***************************************************************************)
EXTENDS Integers, Sequences, FiniteSets, TLC

(***************************************************************************)
(* Bounds of the model.                                                    *)
(***************************************************************************)
MaxRowsA == 2
MaxRowsB == 2
MaxLen == 3
MaxApplications == 2
MaxClock == 2
MaxDateRows == 1
MaxAppRows == 1
MaxMappings == 2
MaxLogs == 2
MaxLoadingTimers == 1
MaxOrderRows == 3
MaxKeyRowsA == 2
MaxKeyRowsB == 1

(***************************************************************************)
(* Characters and strings.                                                 *)
(***************************************************************************)
Whitespace == {" "}

Digits == {"0", "1", "2", "3", "4", "5", "6", "7", "8", "9"}

\* The JavaScript value undefined (an absent cell, an absent field).  It is
\* a one-element sequence whose element is no character, so that it can be
\* compared with strings.
Undefined == <<"undefined">>

EmptyStr == <<>>

RECURSIVE TrimStart(_)
TrimStart(s) ==
    IF s # <<>> /\ Head(s) \in Whitespace THEN TrimStart(Tail(s)) ELSE s

RECURSIVE TrimEnd(_)
TrimEnd(s) ==
    IF s # <<>> /\ s[Len(s)] \in Whitespace
    THEN TrimEnd(SubSeq(s, 1, Len(s) - 1))
    ELSE s

\* String.prototype.trim
Trim(s) == TrimEnd(TrimStart(s))

IsWhitespaceChar(c) == c \in Whitespace

IsNotWhitespaceChar(c) == c \notin Whitespace

\* valStr.replace(/\s+/g, "")
RemoveAllWhitespace(s) == SelectSeq(s, IsNotWhitespaceChar)

\* valStr.replace(/^0+/, "")
RECURSIVE StripLeadingZeros(_)
StripLeadingZeros(s) ==
    IF s # <<>> /\ Head(s) = "0" THEN StripLeadingZeros(Tail(s)) ELSE s

\* String(value || ""): undefined, null and the empty string give "".
CoerceToString(value) == IF value = Undefined THEN EmptyStr ELSE value

\* Array.prototype.includes on a list of field names
Includes(list, x) == \E i \in 1..Len(list) : list[i] = x


(***************************************************************************)
(* State.                                                                  *)
(***************************************************************************)
VARIABLES
    clock,          \* the wall clock, in ticks (new Date(), performance.now())
    tzBehindUTC,    \* the local time zone is west of Greenwich
    lenientIso,     \* the engine's Date accepts yyyy-mm-dd days past month end
    fileA,          \* App state / runComparison argument
    fileB,          \* App state / runComparison argument
    config,         \* App state / runComparison argument
    configRef,      \* App: configRef.current
    logs,           \* App state: what addLog has appended
    isProcessing,   \* App state
    isLoading,      \* App state
    result,         \* App state / what runComparison returned
    pendingRun,     \* App: the setTimeout(..., 100) callbacks not yet run
    pendingLoading, \* App: number of setIsLoading(false) timers not yet run
    pc,             \* position of the runComparison call being executed
    observer,       \* behaviour of the addLog argument of that call
    procA,          \* runComparison local: processSource(fileA, ...)
    procB,          \* runComparison local: processSource(fileB, ...)
    prevRun,        \* outcome of the previous runComparison call on the inputs
    nvIn,           \* normalizeValue call: its arguments
    nvOut           \* normalizeValue call: the successive outputs

vars ==
    <<clock, tzBehindUTC, lenientIso, fileA, fileB, config, configRef, logs,
      isProcessing, isLoading, result, pendingRun, pendingLoading, pc,
      observer, procA, procB, prevRun, nvIn, nvOut>>

(***************************************************************************)
(* Calendar arithmetic (Date, date-fns).                                   *)
(***************************************************************************)
TicksPerYear == 2

EpochYear == 2026

\* new Date().getFullYear()
CurrentYear == EpochYear + (clock \div TicksPerYear)

IsLeapYear(y) == (y % 4 = 0 /\ y % 100 # 0) \/ y % 400 = 0

DaysInMonth(y, m) ==
    IF m = 2 THEN (IF IsLeapYear(y) THEN 29 ELSE 28)
    ELSE IF m \in {4, 6, 9, 11} THEN 30 ELSE 31

InvalidDate == [valid |-> FALSE, year |-> 0, month |-> 0, day |-> 0]

MkDate(y, m, d) == [valid |-> TRUE, year |-> y, month |-> m, day |-> d]

PrevDay(dt) ==
    IF dt.day > 1 THEN MkDate(dt.year, dt.month, dt.day - 1)
    ELSE IF dt.month > 1
         THEN MkDate(dt.year, dt.month - 1, DaysInMonth(dt.year, dt.month - 1))
         ELSE MkDate(dt.year - 1, 12, 31)

DigitVal(c) ==
    CASE c = "0" -> 0 [] c = "1" -> 1 [] c = "2" -> 2 [] c = "3" -> 3
      [] c = "4" -> 4 [] c = "5" -> 5 [] c = "6" -> 6 [] c = "7" -> 7
      [] c = "8" -> 8 [] c = "9" -> 9

DigitChar(n) == <<"0", "1", "2", "3", "4", "5", "6", "7", "8", "9">>[n + 1]

RECURSIVE ParseInt(_)
ParseInt(s) ==
    IF s = <<>> THEN 0
    ELSE 10 * ParseInt(SubSeq(s, 1, Len(s) - 1)) + DigitVal(s[Len(s)])

AllDigits(s) == \A i \in 1..Len(s) : s[i] \in Digits

\* addLeadingZeros(n, width) of date-fns, for 0 <= n
RECURSIVE PadNumber(_, _)
PadNumber(n, width) ==
    IF width <= 1 /\ n < 10 THEN <<DigitChar(n)>>
    ELSE Append(PadNumber(n \div 10, width - 1), DigitChar(n % 10))

LowerLetters ==
    <<"a", "b", "c", "d", "e", "f", "g", "h", "i", "j", "k", "l", "m",
      "n", "o", "p", "q", "r", "s", "t", "u", "v", "w", "x", "y", "z">>

UpperLetters ==
    <<"A", "B", "C", "D", "E", "F", "G", "H", "I", "J", "K", "L", "M",
      "N", "O", "P", "Q", "R", "S", "T", "U", "V", "W", "X", "Y", "Z">>

IsLower(c) == \E i \in 1..26 : LowerLetters[i] = c

IsUpper(c) == \E i \in 1..26 : UpperLetters[i] = c

IsLetter(c) == IsLower(c) \/ IsUpper(c)

ToLowerChar(c) ==
    IF IsUpper(c)
    THEN LowerLetters[CHOOSE i \in 1..26 : UpperLetters[i] = c]
    ELSE c

ToUpperChar(c) ==
    IF IsLower(c)
    THEN UpperLetters[CHOOSE i \in 1..26 : LowerLetters[i] = c]
    ELSE c

\* String.prototype.toLowerCase
ToLowerCase(s) == [i \in 1..Len(s) |-> ToLowerChar(s[i])]

\* a word character of the regular expressions (\w)
IsWordChar(c) == IsLetter(c) \/ c \in Digits \/ c = "_"

\* s.replace(/\b[a-z]/g, (char) => char.toUpperCase())
CapitalizeWords(s) ==
    [i \in 1..Len(s) |->
        IF IsLower(s[i]) /\ (i = 1 \/ ~IsWordChar(s[i - 1]))
        THEN ToUpperChar(s[i])
        ELSE s[i]]

\* /^\d{1,2}-[a-zA-Z]{3}-\d{2,4}$/.test(s)
MatchesDayMonYear(s) ==
    \E d \in 1..2 : \E y \in 2..4 :
        /\ Len(s) = d + 1 + 3 + 1 + y
        /\ AllDigits(SubSeq(s, 1, d))
        /\ s[d + 1] = "-"
        /\ \A i \in (d + 2)..(d + 4) : IsLetter(s[i])
        /\ s[d + 5] = "-"
        /\ AllDigits(SubSeq(s, d + 6, Len(s)))

\* valStr.match(/^\d{4}-\d{2}-\d{2}$/)
MatchesIsoDate(s) ==
    /\ Len(s) = 10
    /\ AllDigits(SubSeq(s, 1, 4))
    /\ s[5] = "-"
    /\ AllDigits(SubSeq(s, 6, 7))
    /\ s[8] = "-"
    /\ AllDigits(SubSeq(s, 9, 10))

(***************************************************************************)
(* date-fns parse(valStr, fmt, new Date()): the format is a sequence of    *)
(* tokens; a token that is no date unit is a literal character.            *)
(***************************************************************************)
dateFormats ==
    << <<"d", "/", "M", "/", "yyyy">>,
       <<"dd", "/", "MM", "/", "yyyy">>,
       <<"d", "-", "M", "-", "yyyy">>,
       <<"dd", "-", "MM", "-", "yyyy">>,
       <<"yyyy", "-", "MM", "-", "dd">>,
       <<"yyyy", "-", "MM", "-", "dd", "T", "HH", ":", "mm", ":", "ss">>,
       <<"M", "/", "d", "/", "yyyy">>,
       <<"MM", "/", "dd", "/", "yyyy">>,
       <<"d", "-", "MMM", "-", "yy">>,
       <<"dd", "-", "MMM", "-", "yy">>,
       <<"d", "-", "MMM", "-", "yyyy">>,
       <<"dd", "-", "MMM", "-", "yyyy">> >>

UnitTokens == {"d", "dd", "M", "MM", "MMM", "yy", "yyyy", "HH", "mm", "ss"}

UnitOf(tok) ==
    CASE tok \in {"d", "dd"} -> "day"
      [] tok \in {"M", "MM", "MMM"} -> "month"
      [] tok \in {"yy", "yyyy"} -> "year"
      [] tok = "HH" -> "hour"
      [] tok = "mm" -> "minute"
      [] tok = "ss" -> "second"

NoMatch == [ok |-> FALSE, val |-> 0, len |-> 0]

Matched(v, n) == [ok |-> TRUE, val |-> v, len |-> n]

Min(a, b) == IF a < b THEN a ELSE b

\* length of the match of /^\d{1,n}/ (0: no match)
DigitPrefixLen(s, n) ==
    CHOOSE k \in 0..Min(n, Len(s)) :
        /\ AllDigits(SubSeq(s, 1, k))
        /\ (k = Min(n, Len(s)) \/ s[k + 1] \notin Digits)

\* parseNDigits(n, dateString)
parseNDigits(n, s) ==
    LET k == DigitPrefixLen(s, n)
    IN  IF k = 0 THEN NoMatch ELSE Matched(ParseInt(SubSeq(s, 1, k)), k)

\* numericPatterns.date: /^(3[0-1]|[0-2]?\d)/
parseDatePattern(s) ==
    IF Len(s) >= 2 /\ s[1] = "3" /\ s[2] \in {"0", "1"}
    THEN Matched(ParseInt(SubSeq(s, 1, 2)), 2)
    ELSE IF Len(s) >= 2 /\ s[1] \in {"0", "1", "2"} /\ s[2] \in Digits
    THEN Matched(ParseInt(SubSeq(s, 1, 2)), 2)
    ELSE IF Len(s) >= 1 /\ s[1] \in Digits
    THEN Matched(DigitVal(s[1]), 1)
    ELSE NoMatch

\* numericPatterns.month: /^(1[0-2]|0?\d)/
parseMonthPattern(s) ==
    IF Len(s) >= 2 /\ s[1] = "1" /\ s[2] \in {"0", "1", "2"}
    THEN Matched(ParseInt(SubSeq(s, 1, 2)), 2)
    ELSE IF Len(s) >= 2 /\ s[1] = "0" /\ s[2] \in Digits
    THEN Matched(ParseInt(SubSeq(s, 1, 2)), 2)
    ELSE IF Len(s) >= 1 /\ s[1] \in Digits
    THEN Matched(DigitVal(s[1]), 1)
    ELSE NoMatch

MonthAbbreviations ==
    << <<"j", "a", "n">>, <<"f", "e", "b">>, <<"m", "a", "r">>,
       <<"a", "p", "r">>, <<"m", "a", "y">>, <<"j", "u", "n">>,
       <<"j", "u", "l">>, <<"a", "u", "g">>, <<"s", "e", "p">>,
       <<"o", "c", "t">>, <<"n", "o", "v">>, <<"d", "e", "c">> >>

MonthInitials ==
    <<"j", "f", "m", "a", "m", "j", "j", "a", "s", "o", "n", "d">>

\* match.month(s, {width: "abbreviated"}) || match.month(s, {width: "narrow"})
\* of the en-US locale; both patterns ignore case.
parseMonthName(s) ==
    LET abbr == IF Len(s) >= 3 THEN ToLowerCase(SubSeq(s, 1, 3)) ELSE <<>>
        init == IF Len(s) >= 1 THEN ToLowerChar(s[1]) ELSE ""
    IN  IF \E m \in 1..12 : MonthAbbreviations[m] = abbr
        THEN Matched(CHOOSE m \in 1..12 : MonthAbbreviations[m] = abbr, 3)
        ELSE IF \E m \in 1..12 : MonthInitials[m] = init
        THEN Matched(CHOOSE m \in 1..12 :
                        /\ MonthInitials[m] = init
                        /\ \A k \in 1..(m - 1) : MonthInitials[k] # init, 1)
        ELSE NoMatch

\* the parser of one unit token
parseUnit(tok, s) ==
    CASE tok = "d" -> parseDatePattern(s)
      [] tok = "M" -> parseMonthPattern(s)
      [] tok = "MMM" -> parseMonthName(s)
      [] tok = "yyyy" -> parseNDigits(4, s)
      [] tok \in {"dd", "MM", "yy", "HH", "mm", "ss"} -> parseNDigits(2, s)

UnsetUnits ==
    [year |-> -1, month |-> -1, day |-> -1, hour |-> 0, minute |-> 0,
     second |-> 0, isTwoDigitYear |-> FALSE]

ParseFailed == [ok |-> FALSE, units |-> UnsetUnits]

\* the token loop of parse: each token consumes a prefix of the string or
\* the parse fails; what is left at the end may only be whitespace.
RECURSIVE parseTokens(_, _, _)
RECURSIVE parseTokensAfter(_, _, _, _)
parseTokens(s, tokens, units) ==
    IF tokens = <<>>
    THEN [ok |-> \A i \in 1..Len(s) : s[i] \in Whitespace, units |-> units]
    ELSE IF Head(tokens) \in UnitTokens
    THEN parseTokensAfter(s, tokens, units, parseUnit(Head(tokens), s))
    ELSE IF s # <<>> /\ Head(s) = Head(tokens)
    THEN parseTokens(Tail(s), Tail(tokens), units)
    ELSE ParseFailed

\* ... after the parser of the unit token Head(tokens) returned r
parseTokensAfter(s, tokens, units, r) ==
    IF ~r.ok THEN ParseFailed
    ELSE parseTokens(
             SubSeq(s, r.len + 1, Len(s)), Tail(tokens),
             [units EXCEPT ![UnitOf(Head(tokens))] = r.val,
                           !.isTwoDigitYear = @ \/ Head(tokens) = "yy"])

\* normalizeTwoDigitYear(twoDigitYear, currentYear) of date-fns
normalizeTwoDigitYear(twoDigitYear, currentYear) ==
    IF currentYear <= 50
    THEN (IF twoDigitYear = 0 THEN 100 ELSE twoDigitYear)
    ELSE twoDigitYear + ((currentYear + 50) \div 100) * 100
             - (IF twoDigitYear >= (currentYear + 50) % 100 THEN 100 ELSE 0)

\* YearParser.set: the reference date new Date() gives the century of a
\* two-digit year
yearOfUnits(u) ==
    IF u.isTwoDigitYear
    THEN normalizeTwoDigitYear(u.year, CurrentYear)
    ELSE u.year

\* the validate and set calls of the parsed units, by priority: year,
\* month, day (against the length of that month), time
setUnits(u, year) ==
    IF /\ (u.isTwoDigitYear \/ u.year > 0)
       /\ u.month \in 1..12
       /\ u.day >= 1 /\ u.day <= DaysInMonth(year, u.month)
       /\ u.hour <= 23 /\ u.minute <= 59 /\ u.second <= 59
    THEN MkDate(year, u.month, u.day)
    ELSE InvalidDate

parsedUnits(r) ==
    IF r.ok THEN setUnits(r.units, yearOfUnits(r.units)) ELSE InvalidDate

\* parse(valStr, fmt, new Date())
parse(valStr, fmt) == parsedUnits(parseTokens(valStr, fmt, UnsetUnits))

\* the UTC date that a string of the shape yyyy-mm-dd denotes.  A day past
\* the end of its month (up to 31) is rejected by some engines and rolled
\* into the next month by others.
utcDate(y, m, d) ==
    IF m \notin 1..12 \/ d < 1 \/ d > 31 THEN InvalidDate
    ELSE IF d <= DaysInMonth(y, m) THEN MkDate(y, m, d)
    ELSE IF ~lenientIso THEN InvalidDate
    ELSE IF m = 12 THEN MkDate(y + 1, 1, d - 31)
    ELSE MkDate(y, m + 1, d - DaysInMonth(y, m))

\* midnight UTC seen in local time: west of Greenwich it is the evening of
\* the day before
localDate(utc) == IF utc.valid /\ tzBehindUTC THEN PrevDay(utc) ELSE utc

\* new Date(valStr), as format and isValid see it.  The code uses it only
\* for a string of the shape yyyy-mm-dd.
nativeDate(valStr) ==
    IF MatchesIsoDate(valStr)
    THEN localDate(utcDate(ParseInt(SubSeq(valStr, 1, 4)),
                           ParseInt(SubSeq(valStr, 6, 7)),
                           ParseInt(SubSeq(valStr, 9, 10))))
    ELSE InvalidDate

\* format(parsedDate, "yyyy-MM-dd")
formatDate(dt) ==
    PadNumber(IF dt.year > 0 THEN dt.year ELSE 1 - dt.year, 4)
        \o <<"-">> \o PadNumber(dt.month, 2)
        \o <<"-">> \o PadNumber(dt.day, 2)

\* the loop over dateFormats: the first format that parses to a year
\* strictly between 1900 and 2100
RECURSIVE probeFormats(_, _)
RECURSIVE probeFormatsAfter(_, _, _)
probeFormats(valStr, i) ==
    IF i > Len(dateFormats) THEN InvalidDate
    ELSE probeFormatsAfter(valStr, i, parse(valStr, dateFormats[i]))

\* ... after format i parsed to d
probeFormatsAfter(valStr, i, d) ==
    IF d.valid /\ d.year > 1900 /\ d.year < 2100 THEN d
    ELSE probeFormats(valStr, i + 1)

\* DD-MON-YY is re-cased to Title Case
titleCaseDayMonYear(valStr) ==
    IF MatchesDayMonYear(valStr)
    THEN CapitalizeWords(ToLowerCase(valStr))
    ELSE valStr

\* parsedDate: the native date of an ISO string, else the probed formats
parsedDateOf(valStr, simpleDate) ==
    IF /\ simpleDate.valid
       /\ Includes(valStr, "-")
       /\ Len(valStr) >= 10
       /\ MatchesIsoDate(valStr)
    THEN simpleDate
    ELSE probeFormats(valStr, 1)

formatIfParsed(valStr, parsedDate) ==
    IF parsedDate.valid THEN formatDate(parsedDate) ELSE valStr

normalizeDateCased(valStr) ==
    formatIfParsed(valStr, parsedDateOf(valStr, nativeDate(valStr)))

\* step 3 of normalizeValue, on a field whose dates are normalized
normalizeDate(valStr) == normalizeDateCased(titleCaseDayMonYear(valStr))

(***************************************************************************)
(* normalizeValue                                                          *)
(***************************************************************************)
\* 1. Trim Whitespace (Global Rule)
whitespaceStep(valStr, cfg) ==
    IF cfg.rules.trimWhitespace THEN RemoveAllWhitespace(valStr) ELSE valStr

\* faulty variant of zerosStep: each side is treated by the other side's rule
zerosStepOtherSide(valStr, fieldName, cfg, isSourceA) ==
    IF isSourceA
    THEN IF /\ cfg.rules.removeLeadingZerosB
            /\ Includes(cfg.rules.removeLeadingZerosFieldsB, fieldName)
         THEN StripLeadingZeros(valStr)
         ELSE valStr
    ELSE IF /\ cfg.rules.removeLeadingZerosA
            /\ Includes(cfg.rules.removeLeadingZerosFieldsA, fieldName)
         THEN StripLeadingZeros(valStr)
         ELSE valStr

\* 2. Remove Leading Zeros
zerosStep(valStr, fieldName, cfg, isSourceA) ==
    IF isSourceA
    THEN IF /\ cfg.rules.removeLeadingZerosA
            /\ Includes(cfg.rules.removeLeadingZerosFieldsA, fieldName)
         THEN StripLeadingZeros(valStr)
         ELSE valStr
    ELSE IF /\ cfg.rules.removeLeadingZerosB
            /\ Includes(cfg.rules.removeLeadingZerosFieldsB, fieldName)
         THEN StripLeadingZeros(valStr)
         ELSE valStr

shouldNormalizeDate(fieldName, cfg, isSourceA) ==
    IF isSourceA
    THEN /\ cfg.rules.normalizeDatesA
         /\ Includes(cfg.rules.dateFieldsA, fieldName)
    ELSE /\ cfg.rules.normalizeDatesB
         /\ Includes(cfg.rules.dateFieldsB, fieldName)

\* 3. Normalize Dates
datesStep(valStr, fieldName, cfg, isSourceA) ==
    IF shouldNormalizeDate(fieldName, cfg, isSourceA)
    THEN normalizeDate(valStr)
    ELSE valStr

\* faulty variant of normalizeValue: the leading zeros are removed before
\* the internal whitespace
normalizeValueZerosFirst(value, fieldName, cfg, isSourceA) ==
    datesStep(whitespaceStep(zerosStep(Trim(CoerceToString(value)),
                                       fieldName, cfg, isSourceA), cfg),
              fieldName, cfg, isSourceA)

normalizeValue(value, fieldName, cfg, isSourceA) ==
    datesStep(
        zerosStep(
            whitespaceStep(Trim(CoerceToString(value)), cfg),
            fieldName, cfg, isSourceA),
        fieldName, cfg, isSourceA)

(***************************************************************************)
(* Rows, Map and Set.                                                      *)
(*                                                                         *)
(* A raw row is a function from field names to strings; a field that is    *)
(* not in its domain reads as undefined.  Null is JavaScript's null: a     *)
(* null entry of file.data, a file that is not loaded, no result.          *)
(* A Map is the sequence of its entries in insertion order, a Set the      *)
(* sequence of its members in insertion order.                             *)
(***************************************************************************)
Null == [null |-> TRUE]

Range(s) == {s[i] : i \in 1..Len(s)}

\* row[fieldName]
Cell(row, fieldName) ==
    IF fieldName \in DOMAIN row THEN row[fieldName] ELSE Undefined

MapHas(map, key) == \E i \in 1..Len(map) : map[i].key = key

MapGet(map, key) == map[CHOOSE i \in 1..Len(map) : map[i].key = key].value

MapSet(map, key, value) ==
    IF MapHas(map, key)
    THEN [i \in 1..Len(map) |->
             IF map[i].key = key THEN [key |-> key, value |-> value]
             ELSE map[i]]
    ELSE Append(map, [key |-> key, value |-> value])

\* Array.from(map.values())
MapValues(map) == [i \in 1..Len(map) |-> map[i].value]

SetHas(set, x) == \E i \in 1..Len(set) : set[i] = x

SetAdd(set, x) == IF SetHas(set, x) THEN set ELSE Append(set, x)

\* parts.join("|"): undefined and null elements are joined as ""
RECURSIVE Join(_)
Join(parts) ==
    IF parts = <<>> THEN EmptyStr
    ELSE IF Len(parts) = 1 THEN CoerceToString(parts[1])
    ELSE CoerceToString(parts[1]) \o <<"|">> \o Join(Tail(parts))

RECURSIVE Flatten(_)
Flatten(seqs) == IF seqs = <<>> THEN <<>> ELSE Head(seqs) \o Flatten(Tail(seqs))

(***************************************************************************)
(* getNormalizedRow and processSource                                      *)
(***************************************************************************)
\* row[header] throws a TypeError when the row is null
getNormalizedRowThrows(row, headers) == row = Null /\ headers # <<>>

getNormalizedRow(row, headers, cfg, isSourceA) ==
    [h \in Range(headers) |->
        normalizeValue(Cell(row, h), h, cfg, isSourceA)]

\* JSON.stringify(normalizedRow): the properties in the order in which
\* getNormalizedRow created them, each with its value
\* faulty variant of JSONstringify: the signature holds the first field only
JSONstringifyFirstField(normalizedRow, headers) ==
    IF headers = <<>> THEN <<>>
    ELSE << <<headers[1], normalizedRow[headers[1]]>> >>

JSONstringify(normalizedRow, headers) ==
    [i \in 1..Len(headers) |-> <<headers[i], normalizedRow[headers[i]]>>]

\* if (!uniqueRowsMap.has(signature)) uniqueRowsMap.set(signature, row)
addUnique(uniqueRowsMap, signature, normalizedRow) ==
    IF ~MapHas(uniqueRowsMap, signature)
    THEN MapSet(uniqueRowsMap, signature, normalizedRow)
    ELSE uniqueRowsMap

\* the body of the try block for one row
dedupeRow(uniqueRowsMap, headers, normalizedRow) ==
    addUnique(uniqueRowsMap, JSONstringify(normalizedRow, headers),
              normalizedRow)

\* the file.data.forEach loop of processSource: uniqueRowsMap after the
\* rows of data, a row that throws being skipped by the catch
RECURSIVE dedupeRows(_, _, _, _, _)
dedupeRows(data, headers, cfg, isSourceA, uniqueRowsMap) ==
    IF data = <<>> THEN uniqueRowsMap
    ELSE IF getNormalizedRowThrows(Head(data), headers)
    THEN dedupeRows(Tail(data), headers, cfg, isSourceA, uniqueRowsMap)
    ELSE dedupeRows(Tail(data), headers, cfg, isSourceA,
             dedupeRow(uniqueRowsMap, headers,
                 getNormalizedRow(Head(data), headers, cfg, isSourceA)))

\* const duplicatesCount = file.data.length - validUniqueRows.length
duplicatesCountOf(data, validUniqueRows) == Len(data) - Len(validUniqueRows)

\* keyParts.join("|") of one unique row
compositeKey(row, cfg, isSourceA) ==
    Join([i \in 1..Len(cfg.keyMappings) |->
             Cell(row, IF isSourceA THEN cfg.keyMappings[i].fieldA
                       ELSE cfg.keyMappings[i].fieldB)])

EmptyIndex == [keyToRowsMap |-> <<>>, allKeys |-> <<>>]

\* faulty variant of indexRow: the row is put before the rows of its key
indexRowPrepending(index, row, key) ==
    [keyToRowsMap |->
         MapSet(index.keyToRowsMap, key,
                <<row>> \o (IF MapHas(index.keyToRowsMap, key)
                            THEN MapGet(index.keyToRowsMap, key)
                            ELSE <<>>)),
     allKeys |-> SetAdd(index.allKeys, key)]

\* allKeys.add(key); keyToRowsMap.get(key).push(row)
indexRow(index, row, key) ==
    [keyToRowsMap |->
         MapSet(index.keyToRowsMap, key,
                Append(IF MapHas(index.keyToRowsMap, key)
                       THEN MapGet(index.keyToRowsMap, key)
                       ELSE <<>>, row)),
     allKeys |-> SetAdd(index.allKeys, key)]

\* the validUniqueRows.forEach loop of processSource
RECURSIVE indexRows(_, _, _, _)
indexRows(rows, cfg, isSourceA, index) ==
    IF rows = <<>> THEN index
    ELSE indexRows(Tail(rows), cfg, isSourceA,
             indexRow(index, Head(rows),
                      compositeKey(Head(rows), cfg, isSourceA)))

\* the ProcessedSource that processSource returns
processedSource(file, validUniqueRows, index) ==
    [validUniqueRows |-> validUniqueRows,
     duplicatesCount |-> duplicatesCountOf(file.data, validUniqueRows),
     keyToRowsMap |-> index.keyToRowsMap,
     allKeys |-> index.allKeys]

indexedSource(file, cfg, isSourceA, validUniqueRows) ==
    processedSource(file, validUniqueRows,
        indexRows(validUniqueRows, cfg, isSourceA, EmptyIndex))

\* processSource(file, config, isSourceA, addLog), its addLog calls apart
processSource(file, cfg, isSourceA) ==
    indexedSource(file, cfg, isSourceA,
        MapValues(dedupeRows(file.data, file.headers, cfg, isSourceA, <<>>)))

SourceName(isSourceA) == IF isSourceA THEN "Source A" ELSE "Source B"

LogEntry(level, message) == [level |-> level, message |-> message]

\* the addLog calls of processSource that returned proc, in order
processSourceLogs(file, proc, isSourceA) ==
    <<LogEntry("info", <<"Processing", SourceName(isSourceA),
                         file.name, Len(file.data)>>)>>
    \o (IF proc.duplicatesCount > 0
        THEN <<LogEntry("info", <<"Removed duplicate rows",
                                  SourceName(isSourceA),
                                  proc.duplicatesCount>>)>>
        ELSE <<>>)

(***************************************************************************)
(* runComparison                                                           *)
(***************************************************************************)
\* faulty variant of missingKeys: the filter on the other source's keys is
\* left out
missingKeysUnfiltered(proc, other) == proc.allKeys

\* the keys of proc that the other source does not have, in proc's order
missingKeys(proc, other) ==
    LET Missing(key) == ~SetHas(other.allKeys, key)
    IN  SelectSeq(proc.allKeys, Missing)

\* faulty variant of rowsForKeys: one row per key, the first
rowsForKeysFirstOnly(keys, proc) ==
    [i \in 1..Len(keys) |-> MapGet(proc.keyToRowsMap, keys[i])[1]]

\* the rows of proc under the keys, key by key
rowsForKeys(keys, proc) ==
    Flatten([i \in 1..Len(keys) |->
                IF MapHas(proc.keyToRowsMap, keys[i])
                THEN MapGet(proc.keyToRowsMap, keys[i])
                ELSE <<>>])

\* faulty variant of matchedKeysCountOf: the unique rows are counted
\* where the keys should be
matchedKeysCountOfRows(pA, missingKeysInB) ==
    Len(pA.validUniqueRows) - Len(missingKeysInB)

\* const matchedKeysCount = procA.allKeys.size - missingKeysInB.length
matchedKeysCountOf(pA, missingKeysInB) ==
    Len(pA.allKeys) - Len(missingKeysInB)

\* the object runComparison returns
resultObject(fA, fB, pA, pB, rowsMissingInB, rowsMissingInA, matched, now) ==
    [timestamp |-> now,
     rowsMissingInB |-> rowsMissingInB,
     rowsMissingInA |-> rowsMissingInA,
     sourceAName |-> fA.name,
     sourceBName |-> fB.name,
     stats |->
         [totalA |-> Len(fA.data),
          totalB |-> Len(fB.data),
          validUniqueA |-> Len(pA.validUniqueRows),
          validUniqueB |-> Len(pB.validUniqueRows),
          duplicatesA |-> pA.duplicatesCount,
          duplicatesB |-> pB.duplicatesCount,
          missingInB |-> Len(rowsMissingInB),
          missingInA |-> Len(rowsMissingInA),
          matched |-> matched]]

\* runComparison from "Identify Missing Keys" to its return
comparisonResult(fA, fB, pA, pB, now) ==
    resultObject(fA, fB, pA, pB,
        rowsForKeys(missingKeys(pA, pB), pA),
        rowsForKeys(missingKeys(pB, pA), pB),
        matchedKeysCountOf(pA, missingKeys(pA, pB)),
        now)

\* the addLog calls of runComparison before processSource
startLogs(cfg) ==
    <<LogEntry("info", <<"Starting reconciliation process...">>),
      LogEntry("info", <<"Config Active: Remove Zeros",
                         cfg.rules.removeLeadingZerosA,
                         cfg.rules.removeLeadingZerosB>>)>>

\* the addLog calls of runComparison after processSource; the duration in
\* the completion message is left out
compareLogs(res) ==
    <<LogEntry("info", <<"Comparing keys...">>),
      LogEntry("success", <<"Comparison completed">>),
      LogEntry("info", <<"Found rows in Source A missing from B",
                         Len(res.rowsMissingInB)>>),
      LogEntry("info", <<"Found rows in Source B missing from A",
                         Len(res.rowsMissingInA)>>)>>

\* what a call of runComparison returns when no addLog call throws
runComparison(fA, fB, cfg, now) ==
    comparisonResult(fA, fB, processSource(fA, cfg, TRUE),
                     processSource(fB, cfg, FALSE), now)

\* the addLog calls of that call, in order
runComparisonLogs(fA, fB, cfg, pA, pB, res) ==
    startLogs(cfg) \o processSourceLogs(fA, pA, TRUE)
        \o processSourceLogs(fB, pB, FALSE) \o compareLogs(res)

(***************************************************************************)
(* ResultsDashboard                                                        *)
(***************************************************************************)
\* ((part / total) * 100).toFixed(1), in tenths of a percent
toFixed1(part, total) == (2000 * part + total) \div (2 * total)

\* const totalUnion = stats.matched + stats.missingInB + stats.missingInA
totalUnion(stats) == stats.matched + stats.missingInB + stats.missingInA

\* const matchPercentage, "0.0" when totalUnion is 0
matchPercentage(stats) ==
    IF totalUnion(stats) > 0 THEN toFixed1(stats.matched, totalUnion(stats))
    ELSE 0

(***************************************************************************)
(* Inputs.                                                                 *)
(***************************************************************************)
\* all sequences over S of length at most n
SeqsUpTo(S, n) == UNION {[1..k -> S] : k \in 0..n}

HeadersA == <<"DOC_NUMBER", "NAME">>

HeadersB == <<"CUST", "NAME">>

\* the key column of Source A: "7", "07"
KeyValuesA == {<<"7">>, <<"0", "7">>}

\* the key column of Source B: "7", "8"
KeyValuesB == {<<"7">>, <<"8">>}

\* "xy", "x y"
OtherValues == {<<"x", "y">>, <<"x", " ", "y">>}

\* the rows a file over the headers can hold: every cell present, or null
RowsOver(headers, keyValues, otherValues) ==
    {[h \in Range(headers) |-> IF h = headers[1] THEN k ELSE o] :
        k \in keyValues, o \in otherValues} \cup {Null}

FilesOver(name, headers, rows, maxRows) ==
    {[name |-> name, data |-> d, headers |-> headers] :
        d \in SeqsUpTo(rows, maxRows)}

KeyMapping(id, fieldA, fieldB) ==
    [id |-> id, fieldA |-> fieldA, fieldB |-> fieldB]

\* the rules App starts with
DefaultRules ==
    [trimWhitespace |-> TRUE,
     removeLeadingZerosA |-> TRUE,
     removeLeadingZerosFieldsA |-> <<"DOC_NUMBER">>,
     normalizeDatesA |-> TRUE,
     dateFieldsA |-> <<>>,
     removeLeadingZerosB |-> TRUE,
     removeLeadingZerosFieldsB |-> <<>>,
     normalizeDatesB |-> TRUE,
     dateFieldsB |-> <<>>]

EngineConfigs ==
    {[keyMappings |-> <<KeyMapping(1, "DOC_NUMBER", "CUST")>>,
      rules |-> [DefaultRules EXCEPT !.trimWhitespace = tw,
                                     !.removeLeadingZerosA = zA]] :
        tw \in BOOLEAN, zA \in BOOLEAN}

(***************************************************************************)
(* One call of runComparison, stage by stage.  A stage ends before the     *)
(* next group of addLog calls; the observer is the addLog argument.        *)
(***************************************************************************)
\* the addLog calls of the stage the call is in, a stage that computes
\* pA, pB having done so
StageLogs(pA, pB) ==
    CASE pc = "ready" -> startLogs(config)
      [] pc = "processA" -> processSourceLogs(fileA, pA, TRUE)
      [] pc = "processB" -> processSourceLogs(fileB, pB, FALSE)
      [] pc = "compare" ->
             compareLogs(comparisonResult(fileA, fileB, pA, pB, clock))
      [] OTHER -> <<>>

\* the rows of file, each normalized where it stands
normalizedInPlace(file, cfg, isSourceA) ==
    [file EXCEPT !.data =
        [i \in 1..Len(file.data) |->
            IF getNormalizedRowThrows(file.data[i], file.headers)
            THEN file.data[i]
            ELSE getNormalizedRow(file.data[i], file.headers, cfg,
                                  isSourceA)]]

\* faulty variant of EngineUnchanged: getNormalizedRow writes the normalized
\* values into the row it is given
EngineUnchangedButRows ==
    /\ fileA' = normalizedInPlace(fileA, config, TRUE)
    /\ fileB' = normalizedInPlace(fileB, config, FALSE)
    /\ UNCHANGED <<tzBehindUTC, lenientIso, config, configRef,
                   isProcessing, isLoading, pendingRun, pendingLoading,
                   observer, nvIn, nvOut>>

EngineUnchanged ==
    UNCHANGED <<tzBehindUTC, lenientIso, fileA, fileB, config, configRef,
                isProcessing, isLoading, pendingRun, pendingLoading,
                observer, nvIn, nvOut>>

\* addLog("info", "Starting reconciliation process..."), addLog(config)
RunStart ==
    /\ pc = "ready"
    /\ observer # "absent"
    /\ logs' = logs \o startLogs(config)
    /\ pc' = "processA"
    /\ UNCHANGED <<clock, result, procA, procB, prevRun>>
    /\ EngineUnchanged

\* const procA = processSource(fileA, config, true, addLog)
ProcessSourceA ==
    /\ pc = "processA"
    /\ procA' = processSource(fileA, config, TRUE)
    /\ logs' = logs \o processSourceLogs(fileA, procA', TRUE)
    /\ pc' = "processB"
    /\ UNCHANGED <<clock, result, procB, prevRun>>
    /\ EngineUnchanged

\* const procB = processSource(fileB, config, false, addLog)
ProcessSourceB ==
    /\ pc = "processB"
    /\ procB' = processSource(fileB, config, FALSE)
    /\ logs' = logs \o processSourceLogs(fileB, procB', FALSE)
    /\ pc' = "compare"
    /\ UNCHANGED <<clock, result, procA, prevRun>>
    /\ EngineUnchanged

\* addLog("info", "Comparing keys...") to the return
CompareKeys ==
    /\ pc = "compare"
    /\ result' = comparisonResult(fileA, fileB, procA, procB, clock)
    /\ logs' = logs \o compareLogs(result')
    /\ pc' = "done"
    /\ UNCHANGED <<clock, procA, procB, prevRun>>
    /\ EngineUnchanged

\* the k-th addLog call of the current stage throws (an absent observer:
\* the first call of all is a TypeError); runComparison catches nothing, so
\* the call ends there and returns nothing
ObserverThrowsAt(stageLogs) ==
    /\ \E k \in 1..Len(stageLogs) :
           /\ observer = "absent" => (pc = "ready" /\ k = 1)
           /\ logs' = logs \o SubSeq(stageLogs, 1, k - 1)
    /\ pc' = "threw"
    /\ UNCHANGED <<clock, result, procA, procB, prevRun>>
    /\ EngineUnchanged

ObserverThrows ==
    /\ pc \in {"ready", "processA", "processB", "compare"}
    /\ observer \in {"throws", "absent"}
    /\ ObserverThrowsAt(
           StageLogs(IF pc = "processA"
                     THEN processSource(fileA, config, TRUE) ELSE procA,
                     IF pc = "processB"
                     THEN processSource(fileB, config, FALSE) ELSE procB))

NoProc == Null

InitEngine ==
    /\ clock = 0
    /\ tzBehindUTC = FALSE
    /\ lenientIso = FALSE
    /\ fileA \in FilesOver("a.csv", HeadersA,
                           RowsOver(HeadersA, KeyValuesA, OtherValues), MaxRowsA)
    /\ fileB \in FilesOver("b.csv", HeadersB,
                           RowsOver(HeadersB, KeyValuesB, OtherValues), MaxRowsB)
    /\ config \in EngineConfigs
    /\ configRef = Null
    /\ logs = <<>>
    /\ isProcessing = FALSE
    /\ isLoading = FALSE
    /\ result = Null
    /\ pendingRun = <<>>
    /\ pendingLoading = 0
    /\ pc = "ready"
    /\ observer \in {"returns", "throws", "absent"}
    /\ procA = NoProc
    /\ procB = NoProc
    /\ prevRun = Null
    /\ nvIn = Null
    /\ nvOut = <<>>

NextEngine ==
    \/ RunStart
    \/ ProcessSourceA
    \/ ProcessSourceB
    \/ CompareKeys
    \/ ObserverThrows

SpecEngine == InitEngine /\ [][NextEngine]_vars

(***************************************************************************)
(* Properties of one call of runComparison (SpecEngine).                   *)
(***************************************************************************)
\* the key set of a processed source
KeySet(proc) == Range(proc.allKeys)

Returned == pc = "done"

\* the unique rows of proc whose composite key the other source lacks
RowsWithoutCounterpart(proc, other, isSourceA) ==
    {i \in 1..Len(proc.validUniqueRows) :
        compositeKey(proc.validUniqueRows[i], config, isSourceA)
            \notin KeySet(other)}

\* the positions of file.data whose row makes getNormalizedRow throw
ThrowingRows(file) ==
    {i \in 1..Len(file.data) :
        getNormalizedRowThrows(file.data[i], file.headers)}

\* the signature of the row at position i of file.data
SignatureAt(file, isSourceA, i) ==
    JSONstringify(getNormalizedRow(file.data[i], file.headers, config,
                                   isSourceA), file.headers)

\* the positions of file.data whose row normalizes to a signature that an
\* earlier row already had
SeenBefore(file, isSourceA) ==
    {i \in (1..Len(file.data)) \ ThrowingRows(file) :
        \E j \in (1..(i - 1)) \ ThrowingRows(file) :
            SignatureAt(file, isSourceA, j) = SignatureAt(file, isSourceA, i)}

\* the positions of file.data whose row has the signature of the row at i
Occurrences(file, isSourceA, i) ==
    {j \in (1..Len(file.data)) \ ThrowingRows(file) :
        SignatureAt(file, isSourceA, j) = SignatureAt(file, isSourceA, i)}

\* file without the rows whose normalization throws
WithoutThrowingRows(file) ==
    [file EXCEPT !.data =
        LET Kept(row) == ~getNormalizedRowThrows(row, file.headers)
        IN  SelectSeq(file.data, Kept)]

\* C1 (key partition law): when runComparison returns, matched plus the
\* number of keys only in A is the size of A's key set, and matched plus the
\* number of keys only in B is the size of B's key set.
C1_KeyPartition ==
    Returned =>
        /\ result.stats.matched + Cardinality(KeySet(procA) \ KeySet(procB))
               = Cardinality(KeySet(procA))
        /\ result.stats.matched + Cardinality(KeySet(procB) \ KeySet(procA))
               = Cardinality(KeySet(procB))

\* C1: a call returned with a matched key, a key only in A and a key only in
\* B
C1_Witness ==
    /\ Returned
    /\ result.stats.matched >= 1
    /\ KeySet(procA) \ KeySet(procB) # {}
    /\ KeySet(procB) \ KeySet(procA) # {}

\* C2 (missing-row property): every row of rowsMissingInB has a composite key
\* that B's key set lacks, every row of rowsMissingInA has a composite key
\* that A's key set lacks, and no row whose key is in both key sets is in
\* either list.
C2_MissingRows ==
    Returned =>
        /\ \A i \in 1..Len(result.rowsMissingInB) :
               /\ compositeKey(result.rowsMissingInB[i], config, TRUE)
                      \notin KeySet(procB)
               /\ compositeKey(result.rowsMissingInB[i], config, TRUE)
                      \notin KeySet(procA) \cap KeySet(procB)
        /\ \A i \in 1..Len(result.rowsMissingInA) :
               /\ compositeKey(result.rowsMissingInA[i], config, FALSE)
                      \notin KeySet(procA)
               /\ compositeKey(result.rowsMissingInA[i], config, FALSE)
                      \notin KeySet(procA) \cap KeySet(procB)

\* C2: a call returned with rows in both missing lists while another key
\* matched
C2_Witness ==
    /\ Returned
    /\ result.rowsMissingInB # <<>>
    /\ result.rowsMissingInA # <<>>
    /\ KeySet(procA) \cap KeySet(procB) # {}

\* C4 (dedup conservation): for each source the total row count is the
\* unique count plus the duplicate count, the duplicate count being the
\* number of rows whose normalized signature an earlier row already had.
C4_DedupConservation ==
    Returned =>
        /\ result.stats.totalA
               = result.stats.validUniqueA + result.stats.duplicatesA
        /\ result.stats.duplicatesA = Cardinality(SeenBefore(fileA, TRUE))
        /\ result.stats.totalB
               = result.stats.validUniqueB + result.stats.duplicatesB
        /\ result.stats.duplicatesB = Cardinality(SeenBefore(fileB, FALSE))

\* C5 (a throwing row is skipped entirely): the unique rows and the
\* duplicate count of a source are those of the source without the rows
\* whose normalization throws.
C5_ThrowingRowSkipped ==
    Returned =>
        /\ procA.validUniqueRows
               = processSource(WithoutThrowingRows(fileA), config,
                               TRUE).validUniqueRows
        /\ result.stats.duplicatesA
               = processSource(WithoutThrowingRows(fileA), config,
                               TRUE).duplicatesCount
        /\ procB.validUniqueRows
               = processSource(WithoutThrowingRows(fileB), config,
                               FALSE).validUniqueRows
        /\ result.stats.duplicatesB
               = processSource(WithoutThrowingRows(fileB), config,
                               FALSE).duplicatesCount

\* the result has, under the field, an entry with the normalized row at
\* position i of file.data and the number of its occurrences
HasDuplicateEntry(field, file, isSourceA, i) ==
    /\ field \in DOMAIN result
    /\ \E k \in 1..Len(result[field]) :
           /\ result[field][k].row
                  = getNormalizedRow(file.data[i], file.headers, config,
                                     isSourceA)
           /\ result[field][k].count
                  = Cardinality(Occurrences(file, isSourceA, i))

\* C7 (duplicate report): for every signature that occurs more than once in
\* a source, the returned result has a (row, occurrenceCount) entry in
\* duplicatedRowsA, respectively duplicatedRowsB.
C7_DuplicateEntries ==
    Returned =>
        /\ \A i \in SeenBefore(fileA, TRUE) :
               HasDuplicateEntry("duplicatedRowsA", fileA, TRUE, i)
        /\ \A i \in SeenBefore(fileB, FALSE) :
               HasDuplicateEntry("duplicatedRowsB", fileB, FALSE, i)

\* C8 (the observer is advisory): once the call has ended, it has returned
\* the result that the same datasets and config give with an observer that
\* succeeds, whether the observer is absent, succeeds or throws.
C8_ObserverAdvisory ==
    pc \in {"done", "threw"} =>
        /\ pc = "done"
        /\ result = runComparison(fileA, fileB, config, clock)

\* C10 (completeness of discrepancy rows): every unique row of A whose key
\* B's key set lacks is in rowsMissingInB, every unique row of B whose key
\* A's key set lacks is in rowsMissingInA, and missingInB, missingInA count
\* those rows.
C10_Completeness ==
    Returned =>
        /\ \A i \in RowsWithoutCounterpart(procA, procB, TRUE) :
               procA.validUniqueRows[i] \in Range(result.rowsMissingInB)
        /\ result.stats.missingInB
               = Cardinality(RowsWithoutCounterpart(procA, procB, TRUE))
        /\ \A i \in RowsWithoutCounterpart(procB, procA, FALSE) :
               procB.validUniqueRows[i] \in Range(result.rowsMissingInA)
        /\ result.stats.missingInA
               = Cardinality(RowsWithoutCounterpart(procB, procA, FALSE))

\* C10: a call returned where one key only in A holds two unique rows and
\* one key only in B holds two unique rows, so that the row counts exceed
\* the numbers of missing keys
C10_Witness ==
    /\ Returned
    /\ Cardinality(KeySet(procA) \ KeySet(procB)) = 1
    /\ result.stats.missingInB = 2
    /\ Cardinality(KeySet(procB) \ KeySet(procA)) = 1
    /\ result.stats.missingInA = 2

\* each file holds one row, an object, and the raw key value of B's row is
\* the raw key value of A's row without its leading zeros
OneRowEachUpToZeros ==
    /\ Len(fileA.data) = 1 /\ fileA.data[1] # Null
    /\ Len(fileB.data) = 1 /\ fileB.data[1] # Null
    /\ Len(config.keyMappings) = 1
    /\ StripLeadingZeros(fileA.data[1][config.keyMappings[1].fieldA])
           = fileB.data[1][config.keyMappings[1].fieldB]

\* leading zeros are removed on side A from the key field of A
ZerosRemovedOnKeyOfA ==
    /\ config.rules.removeLeadingZerosA
    /\ Includes(config.rules.removeLeadingZerosFieldsA,
                config.keyMappings[1].fieldA)

\* C11 (matching on normalized values, each side under its own rules): with
\* one key mapping and leading-zero removal enabled on side A for its key
\* field, one row of A and one row of B whose key values differ only by the
\* leading zeros of A's value match: matched = 1, missingInA = 0,
\* missingInB = 0.
C11_LeadingZerosMatch ==
    (Returned /\ OneRowEachUpToZeros /\ ZerosRemovedOnKeyOfA) =>
        /\ result.stats.matched = 1
        /\ result.stats.missingInA = 0
        /\ result.stats.missingInB = 0

\* C11: the call returned on A's key value "07" and B's key value "7", zero
\* removal being enabled for A's key field and for no field of B
C11_Witness ==
    /\ Returned /\ OneRowEachUpToZeros /\ ZerosRemovedOnKeyOfA
    /\ fileA.data[1]["DOC_NUMBER"] = <<"0", "7">>
    /\ fileB.data[1]["CUST"] = <<"7">>
    /\ config.rules.removeLeadingZerosFieldsB = <<>>

\* the normalized row of the row at position i of file.data
NormalizedAt(file, isSourceA, i) ==
    getNormalizedRow(file.data[i], file.headers, config, isSourceA)

\* the positions of file.data whose row normalizes without throwing to a row
\* that no earlier row normalizes to, two normalized rows being the same
\* when they agree on every header
FirstOccurrences(file, isSourceA) ==
    {i \in (1..Len(file.data)) \ ThrowingRows(file) :
        \A j \in (1..(i - 1)) \ ThrowingRows(file) :
            \E h \in Range(file.headers) :
                NormalizedAt(file, isSourceA, j)[h]
                    # NormalizedAt(file, isSourceA, i)[h]}

\* the normalized rows at the positions of FirstOccurrences, in input order
FirstOccurrenceRows(file, isSourceA) ==
    LET positions == [i \in 1..Len(file.data) |-> i]
        IsFirst(i) == i \in FirstOccurrences(file, isSourceA)
        kept      == SelectSeq(positions, IsFirst)
    IN  [k \in 1..Len(kept) |-> NormalizedAt(file, isSourceA, kept[k])]

\* C12 (deduplication, first occurrence retained): the unique rows of a
\* processed source are the normalized rows of the source whose normalization
\* does not throw, without every row that an earlier row equals after
\* normalization, in the order of their first appearance in the input.
C12_FirstOccurrenceRetained ==
    /\ procA # NoProc =>
           procA.validUniqueRows = FirstOccurrenceRows(fileA, TRUE)
    /\ procB # NoProc =>
           procB.validUniqueRows = FirstOccurrenceRows(fileB, FALSE)

\* C12: source A was processed; its two rows differ as read and are the same
\* row after normalization, so that only the first one is retained
C12_Witness ==
    /\ procA # NoProc
    /\ Len(fileA.data) = 2 /\ ThrowingRows(fileA) = {}
    /\ fileA.data[1] # fileA.data[2]
    /\ FirstOccurrences(fileA, TRUE) = {1}
    /\ Len(procA.validUniqueRows) = 1
    /\ procA.duplicatesCount = 1

\* the two milestones of a source: processing start, and finish with the
\* duplicate count whatever the count is
SourceMilestones(file, proc, isSourceA) ==
    <<LogEntry("info", <<"Processing", SourceName(isSourceA),
                         file.name, Len(file.data)>>),
      LogEntry("info", <<"Removed duplicate rows", SourceName(isSourceA),
                         proc.duplicatesCount>>)>>

\* C14 (observer milestone order): when runComparison returns, the observer
\* has received, in this order, the start messages, Source A's processing
\* start, Source A's finish with its duplicate count, Source B's processing
\* start, Source B's finish with its duplicate count, the comparison start,
\* the completion and both missing-row counts; the finish message of a
\* source is there also when its duplicate count is 0.
C14_MilestoneOrder ==
    Returned =>
        logs = startLogs(config)
                   \o SourceMilestones(fileA, procA, TRUE)
                   \o SourceMilestones(fileB, procB, FALSE)
                   \o compareLogs(result)

\* C16 (stats assembly): in every result totalA/B are the row counts of the
\* files, validUniqueA/B the numbers of rows left by the deduplication,
\* duplicatesA/B the numbers of rows the deduplication found to repeat an
\* earlier row, missingInB and missingInA the lengths of rowsMissingInB and
\* rowsMissingInA, and matched the number of keys in both key sets.
C16_StatsAssembly ==
    Returned =>
        /\ result.stats.totalA = Len(fileA.data)
        /\ result.stats.totalB = Len(fileB.data)
        /\ result.stats.validUniqueA = Len(FirstOccurrenceRows(fileA, TRUE))
        /\ result.stats.validUniqueB = Len(FirstOccurrenceRows(fileB, FALSE))
        /\ result.stats.duplicatesA = Cardinality(SeenBefore(fileA, TRUE))
        /\ result.stats.duplicatesB = Cardinality(SeenBefore(fileB, FALSE))
        /\ result.stats.missingInB = Len(result.rowsMissingInB)
        /\ result.stats.missingInA = Len(result.rowsMissingInA)
        /\ result.stats.matched
               = Cardinality(KeySet(procA) \cap KeySet(procB))

\* the normalized rows of the rows of file whose normalization does not
\* throw
NormalizedRowsOf(file, isSourceA) ==
    {NormalizedAt(file, isSourceA, i) :
        i \in (1..Len(file.data)) \ ThrowingRows(file)}

\* C19 (source immutability): no step of runComparison changes fileA or
\* fileB, neither a raw row nor the header list, and when the call has
\* returned every row of the result is a normalized row built from a raw
\* row of the unchanged file.
C19_SourceImmutability ==
    [][/\ fileA' = fileA
       /\ fileB' = fileB
       /\ pc' = "done" =>
              /\ Range(result'.rowsMissingInB)
                     \subseteq NormalizedRowsOf(fileA, TRUE)
              /\ Range(result'.rowsMissingInA)
                     \subseteq NormalizedRowsOf(fileB, FALSE)]_vars

\* C19: a call returned a row of A without the leading zero of its key while
\* the raw row of fileA still has it
C19_Witness ==
    /\ Returned
    /\ Len(fileA.data) = 1 /\ fileA.data[1] # Null
    /\ fileA.data[1]["DOC_NUMBER"] = <<"0", "7">>
    /\ Len(result.rowsMissingInB) = 1
    /\ result.rowsMissingInB[1]["DOC_NUMBER"] = <<"7">>

(***************************************************************************)
(* runComparison on a longer file A (SpecOrder): the steps of SpecEngine on *)
(* files where a key can come back after a row of another key.             *)
(***************************************************************************)
InitOrder ==
    /\ clock = 0
    /\ tzBehindUTC = FALSE
    /\ lenientIso = FALSE
    /\ fileA \in FilesOver("a.csv", HeadersA,
                           RowsOver(HeadersA, KeyValuesA, OtherValues)
                               \ {Null}, MaxOrderRows)
    /\ fileB \in FilesOver("b.csv", HeadersB,
                           RowsOver(HeadersB, KeyValuesB, {<<"x", "y">>}), 1)
    /\ config \in EngineConfigs
    /\ configRef = Null
    /\ logs = <<>>
    /\ isProcessing = FALSE
    /\ isLoading = FALSE
    /\ result = Null
    /\ pendingRun = <<>>
    /\ pendingLoading = 0
    /\ pc = "ready"
    /\ observer \in {"returns", "throws", "absent"}
    /\ procA = NoProc
    /\ procB = NoProc
    /\ prevRun = Null
    /\ nvIn = Null
    /\ nvOut = <<>>

SpecOrder == InitOrder /\ [][NextEngine]_vars

\* the composite keys of the unique rows of proc, row by row
KeysOfRows(proc, isSourceA) ==
    [i \in 1..Len(proc.validUniqueRows) |->
        compositeKey(proc.validUniqueRows[i], config, isSourceA)]

\* the keys of proc that other lacks, each once, in the order in which the
\* unique rows of proc bring them up
FirstSeenOnlyKeys(proc, other, isSourceA) ==
    LET keys      == KeysOfRows(proc, isSourceA)
        positions == [i \in 1..Len(keys) |-> i]
        IsNew(i)  == /\ keys[i] \notin KeySet(other)
                     /\ \A j \in 1..(i - 1) : keys[j] # keys[i]
        kept      == SelectSeq(positions, IsNew)
    IN  [k \in 1..Len(kept) |-> keys[kept[k]]]

\* the unique rows of proc under key, in unique-row order
RowsUnder(proc, isSourceA, key) ==
    LET HasKey(row) == compositeKey(row, config, isSourceA) = key
    IN  SelectSeq(proc.validUniqueRows, HasKey)

\* the rows under the keys of FirstSeenOnlyKeys, key after key
GroupedOnlyRows(proc, other, isSourceA) ==
    LET keys == FirstSeenOnlyKeys(proc, other, isSourceA)
    IN  Flatten([k \in 1..Len(keys) |-> RowsUnder(proc, isSourceA, keys[k])])

\* C15 (reconciliation order): the keys only in A are taken in the order in
\* which A's unique rows first bring them up, and rowsMissingInB holds the
\* rows of A under these keys, key after key in that order and, under one
\* key, in unique-row order; the same for B and rowsMissingInA.
C15_ReconciliationOrder ==
    Returned =>
        /\ missingKeys(procA, procB) = FirstSeenOnlyKeys(procA, procB, TRUE)
        /\ missingKeys(procB, procA) = FirstSeenOnlyKeys(procB, procA, FALSE)
        /\ result.rowsMissingInB = GroupedOnlyRows(procA, procB, TRUE)
        /\ result.rowsMissingInA = GroupedOnlyRows(procB, procA, FALSE)

\* C15: a call returned on a file A whose three unique rows come under two
\* keys that B lacks, the first key coming back in the third row, so that
\* rowsMissingInB is not in the order of A's unique rows
C15_Witness ==
    /\ Returned
    /\ Len(procA.validUniqueRows) = 3
    /\ Len(missingKeys(procA, procB)) = 2
    /\ KeysOfRows(procA, TRUE)[1] = KeysOfRows(procA, TRUE)[3]
    /\ result.rowsMissingInB # procA.validUniqueRows
    /\ Len(result.rowsMissingInB) = 3

\* the composite keys found in the two sources together
KeyUnion == KeySet(procA) \cup KeySet(procB)

\* C22 (dashboard match percentage): for every result the denominator
\* totalUnion is the number of distinct composite keys in the union of A's
\* and B's key sets, and the match percentage is the share of the matched
\* keys in that union, also when one key maps to several rows.
C22_MatchPercentage ==
    Returned =>
        /\ totalUnion(result.stats) = Cardinality(KeyUnion)
        /\ matchPercentage(result.stats)
               = IF KeyUnion = {} THEN 0
                 ELSE toFixed1(Cardinality(KeySet(procA) \cap KeySet(procB)),
                               Cardinality(KeyUnion))

(***************************************************************************)
(* runComparison under two key mappings (SpecKeys): the steps of SpecEngine *)
(* on files with the key columns K1 and K2, whose values are "", "|", "x". *)
(***************************************************************************)
InitKeys ==
    /\ clock = 0
    /\ tzBehindUTC = FALSE
    /\ lenientIso = FALSE
    /\ fileA \in FilesOver("a.csv", <<"K1", "K2">>,
                           [{"K1", "K2"} -> {<<>>, <<"|">>, <<"x">>}],
                           MaxKeyRowsA)
    /\ fileB \in FilesOver("b.csv", <<"K1", "K2">>,
                           [{"K1", "K2"} -> {<<>>, <<"|">>, <<"x">>}],
                           MaxKeyRowsB)
    /\ config \in {[keyMappings |-> <<KeyMapping(1, "K1", "K1"),
                                       KeyMapping(2, "K2", "K2")>>,
                    rules |-> [DefaultRules EXCEPT !.trimWhitespace = tw]] :
                       tw \in BOOLEAN}
    /\ configRef = Null
    /\ logs = <<>>
    /\ isProcessing = FALSE
    /\ isLoading = FALSE
    /\ result = Null
    /\ pendingRun = <<>>
    /\ pendingLoading = 0
    /\ pc = "ready"
    /\ observer \in {"returns", "throws", "absent"}
    /\ procA = NoProc
    /\ procB = NoProc
    /\ prevRun = Null
    /\ nvIn = Null
    /\ nvOut = <<>>

SpecKeys == InitKeys /\ [][NextEngine]_vars

\* the ordered tuple of the values of row in the key-mapped fields of its
\* side, an absent field counting as the empty value
KeyTuple(row, isSourceA) ==
    [i \in 1..Len(config.keyMappings) |->
        CoerceToString(Cell(row, IF isSourceA
                                 THEN config.keyMappings[i].fieldA
                                 ELSE config.keyMappings[i].fieldB))]

\* the unique rows of both sources, each with its side
SidedRows ==
    {[row |-> procA.validUniqueRows[i], isSourceA |-> TRUE] :
        i \in 1..Len(procA.validUniqueRows)}
    \cup {[row |-> procB.validUniqueRows[i], isSourceA |-> FALSE] :
        i \in 1..Len(procB.validUniqueRows)}

\* C21 (composite key injectivity): two unique rows, of one source or of
\* both, have the same composite key if and only if their ordered tuples of
\* normalized key-mapped values are equal; distinct tuples never collide
\* through the '|' join, also when a value contains '|'.
C21_KeyInjective ==
    Returned =>
        \A r, s \in SidedRows :
            (compositeKey(r.row, config, r.isSourceA)
                 = compositeKey(s.row, config, s.isSourceA))
            <=> (KeyTuple(r.row, r.isSourceA) = KeyTuple(s.row, s.isSourceA))

(***************************************************************************)
(* Calls of normalizeValue on its own output (SpecNormalize).              *)
(***************************************************************************)
NormalizeAlphabet == {"0", " ", "1"}

\* "3-DEC-25", "1-Jan-76", "01/02/2025", "2025-12-03", "2025-02-30"
DateSamples ==
    {<<"3", "-", "D", "E", "C", "-", "2", "5">>,
     <<"1", "-", "J", "a", "n", "-", "7", "6">>,
     <<"0", "1", "/", "0", "2", "/", "2", "0", "2", "5">>,
     <<"2", "0", "2", "5", "-", "1", "2", "-", "0", "3">>,
     <<"2", "0", "2", "5", "-", "0", "2", "-", "3", "0">>}

\* the values normalizeValue is called with: an absent cell, the strings
\* over the alphabet up to MaxLen, the date samples
NormalizeValues ==
    {Undefined} \cup SeqsUpTo(NormalizeAlphabet, MaxLen) \cup DateSamples

\* rule sets that treat the field DOC_NUMBER alike on both sides
NormalizeConfigs ==
    {[keyMappings |-> <<>>,
      rules |-> [trimWhitespace |-> tw,
                 removeLeadingZerosA |-> z,
                 removeLeadingZerosFieldsA |-> <<"DOC_NUMBER">>,
                 normalizeDatesA |-> d,
                 dateFieldsA |-> <<"DOC_NUMBER">>,
                 removeLeadingZerosB |-> z,
                 removeLeadingZerosFieldsB |-> <<"DOC_NUMBER">>,
                 normalizeDatesB |-> d,
                 dateFieldsB |-> <<"DOC_NUMBER">>]] :
        tw \in BOOLEAN, z \in BOOLEAN, d \in BOOLEAN}

\* the value of the next call: the argument first, then the last output
NextNormalizeArgument ==
    IF nvOut = <<>> THEN nvIn.value ELSE nvOut[Len(nvOut)]

\* normalizeValue(value, fieldName, config, isSourceA), called on the
\* argument and then on what it returned
ApplyNormalizeValue ==
    /\ Len(nvOut) < MaxApplications
    /\ nvOut' = Append(nvOut,
                       normalizeValue(NextNormalizeArgument, nvIn.fieldName,
                                      nvIn.cfg, nvIn.isSourceA))
    /\ UNCHANGED <<clock, tzBehindUTC, lenientIso, fileA, fileB, config,
                   configRef, logs, isProcessing, isLoading, result,
                   pendingRun, pendingLoading, pc, observer, procA, procB,
                   prevRun, nvIn>>

InitNormalize ==
    /\ clock = 0
    /\ tzBehindUTC \in BOOLEAN
    /\ lenientIso \in BOOLEAN
    /\ fileA = Null
    /\ fileB = Null
    /\ config = Null
    /\ configRef = Null
    /\ logs = <<>>
    /\ isProcessing = FALSE
    /\ isLoading = FALSE
    /\ result = Null
    /\ pendingRun = <<>>
    /\ pendingLoading = 0
    /\ pc = "idle"
    /\ observer = "returns"
    /\ procA = NoProc
    /\ procB = NoProc
    /\ prevRun = Null
    /\ nvIn \in [value : NormalizeValues, fieldName : {"DOC_NUMBER"},
                 cfg : NormalizeConfigs, isSourceA : BOOLEAN]
    /\ nvOut = <<>>

NextNormalize == ApplyNormalizeValue

SpecNormalize == InitNormalize /\ [][NextNormalize]_vars

\* C6 (normalizer idempotence): normalizeValue applied to its own output
\* returns that output, for every value, side and rule setting.
C6_Idempotence == Len(nvOut) >= 2 => nvOut[2] = nvOut[1]

\* zero removal is enabled for the side of the call and its field list has
\* the field
ZerosEnabled(in) ==
    IF in.isSourceA
    THEN in.cfg.rules.removeLeadingZerosA
         /\ Includes(in.cfg.rules.removeLeadingZerosFieldsA, in.fieldName)
    ELSE in.cfg.rules.removeLeadingZerosB
         /\ Includes(in.cfg.rules.removeLeadingZerosFieldsB, in.fieldName)

\* trim(v), an absent value being the empty string
Trimmed(in) == IF in.value = Undefined THEN EmptyStr ELSE Trim(in.value)

\* stripAllWhitespace(trim(v)) if trimWhitespace is on
Unspaced(in) ==
    IF in.cfg.rules.trimWhitespace THEN RemoveAllWhitespace(Trimmed(in))
    ELSE Trimmed(in)

\* stripLeadingZeros of that if zero removal is enabled
Unzeroed(in) ==
    IF ZerosEnabled(in) THEN StripLeadingZeros(Unspaced(in)) ELSE Unspaced(in)

\* a string of zeros and nothing else
OnlyZeros(str) == str # <<>> /\ \A i \in 1..Len(str) : str[i] = "0"

\* C17 (normalizer step order for non-date fields): on a field that is not
\* date-normalized the result is stripLeadingZeros(stripAllWhitespace(
\* trim(v))), stripAllWhitespace applying only if trimWhitespace is on and
\* stripLeadingZeros only if zero removal is enabled for the side and the
\* field is in the side's list; an absent value gives the empty string, and
\* so does a value of zeros only when zero removal applies.
C17_StepOrder ==
    (Len(nvOut) >= 1
        /\ ~shouldNormalizeDate(nvIn.fieldName, nvIn.cfg, nvIn.isSourceA)) =>
        /\ nvOut[1] = Unzeroed(nvIn)
        /\ nvIn.value = Undefined => nvOut[1] = EmptyStr
        /\ (ZerosEnabled(nvIn) /\ nvIn.value # Undefined
                /\ OnlyZeros(nvIn.value)) => nvOut[1] = EmptyStr

\* C17: normalizeValue returned the empty string for "0 0" on a field that
\* is not date-normalized, with trimWhitespace on and zero removal enabled:
\* the whitespace went first, the zeros after it
C17_Witness ==
    /\ Len(nvOut) >= 1
    /\ ~shouldNormalizeDate(nvIn.fieldName, nvIn.cfg, nvIn.isSourceA)
    /\ nvIn.value = <<"0", " ", "0">>
    /\ nvIn.cfg.rules.trimWhitespace
    /\ ZerosEnabled(nvIn)
    /\ nvOut[1] = EmptyStr

\* the value as the format probing decides it: the first format of
\* dateFormats that parses to a year strictly between 1900 and 2100,
\* rendered as yyyy-MM-dd, or the value itself when no format qualifies
ProbedDate(valStr) == formatIfParsed(valStr, probeFormats(valStr, 1))

\* C18 (date normalization on an enabled date field): the value produced by
\* the earlier steps, re-cased to title case when it is a
\* day-monthAbbrev-year value, is decided by the first format, in the fixed
\* order, that parses to a year strictly between 1900 and 2100, and rendered
\* as yyyy-MM-dd; it is left as it is when no format qualifies; "3-DEC-25"
\* becomes "2025-12-03" and "01/02/2025", day first, "2025-02-01".
C18_DateNormalization ==
    (Len(nvOut) >= 1
        /\ shouldNormalizeDate(nvIn.fieldName, nvIn.cfg, nvIn.isSourceA)) =>
        /\ nvOut[1] = ProbedDate(titleCaseDayMonYear(Unzeroed(nvIn)))
        /\ nvIn.value = <<"3", "-", "D", "E", "C", "-", "2", "5">> =>
               nvOut[1] = <<"2", "0", "2", "5", "-", "1", "2", "-", "0", "3">>
        /\ nvIn.value = <<"0", "1", "/", "0", "2", "/", "2", "0", "2", "5">> =>
               (~ZerosEnabled(nvIn) =>
                   nvOut[1]
                       = <<"2", "0", "2", "5", "-", "0", "2", "-", "0", "1">>)

(***************************************************************************)
(* Repeated calls of runComparison on the same datasets and config, the    *)
(* wall clock advancing between them (SpecRerun).                          *)
(***************************************************************************)
DateHeaders == <<"DATE">>

\* "1-Jan-76", "1-Jan-25"
DateValuesA == {<<"1", "-", "J", "a", "n", "-", "7", "6">>, <<"1", "-", "J", "a", "n", "-", "2", "5">>}

\* "1976-01-01", "2025-01-01"
DateValuesB == {<<"1", "9", "7", "6", "-", "0", "1", "-", "0", "1">>, <<"2", "0", "2", "5", "-", "0", "1", "-", "0", "1">>}

RerunConfig ==
    [keyMappings |-> <<KeyMapping(1, "DATE", "DATE")>>,
     rules |-> [DefaultRules EXCEPT !.dateFieldsA = <<"DATE">>,
                                    !.dateFieldsB = <<"DATE">>]]

\* time passes
Tick ==
    /\ clock < MaxClock
    /\ clock' = clock + 1
    /\ UNCHANGED <<tzBehindUTC, lenientIso, fileA, fileB, config, configRef,
                   logs, isProcessing, isLoading, result, pendingRun,
                   pendingLoading, pc, observer, procA, procB, prevRun,
                   nvIn, nvOut>>

\* runComparison(fileA, fileB, config, addLog) once more; the outcome of
\* the call before it is kept for comparison
CallRunComparison ==
    /\ prevRun' = result
    /\ result' = runComparison(fileA, fileB, config, clock)
    /\ UNCHANGED <<clock, tzBehindUTC, lenientIso, fileA, fileB, config,
                   configRef, logs, isProcessing, isLoading, pendingRun,
                   pendingLoading, pc, observer, procA, procB, nvIn, nvOut>>

InitRerun ==
    /\ clock = 0
    /\ tzBehindUTC \in BOOLEAN
    /\ lenientIso \in BOOLEAN
    /\ fileA \in FilesOver("a.csv", DateHeaders,
                           RowsOver(DateHeaders, DateValuesA, {EmptyStr}),
                           MaxDateRows)
    /\ fileB \in FilesOver("b.csv", DateHeaders,
                           RowsOver(DateHeaders, DateValuesB, {EmptyStr}),
                           MaxDateRows)
    /\ config = RerunConfig
    /\ configRef = Null
    /\ logs = <<>>
    /\ isProcessing = FALSE
    /\ isLoading = FALSE
    /\ result = Null
    /\ pendingRun = <<>>
    /\ pendingLoading = 0
    /\ pc = "idle"
    /\ observer = "returns"
    /\ procA = NoProc
    /\ procB = NoProc
    /\ prevRun = Null
    /\ nvIn = Null
    /\ nvOut = <<>>

NextRerun ==
    \/ Tick
    \/ CallRunComparison

SpecRerun == InitRerun /\ [][NextRerun]_vars

\* the two results agree on everything but the timestamp
SameButTimestamp(r1, r2) ==
    /\ r1.stats = r2.stats
    /\ r1.rowsMissingInA = r2.rowsMissingInA
    /\ r1.rowsMissingInB = r2.rowsMissingInB
    /\ r1.sourceAName = r2.sourceAName
    /\ r1.sourceBName = r2.sourceBName

\* C9 (determinism): two calls of runComparison on the same datasets and
\* config return the same stats, rowsMissingInA, rowsMissingInB and source
\* names; only the timestamp may differ.
C9_Determinism ==
    (prevRun # Null /\ result # Null) => SameButTimestamp(prevRun, result)

(***************************************************************************)
(* The App component: its handlers, the ConfigPanel editors and the timers *)
(* that handleRun starts (SpecApp).                                        *)
(***************************************************************************)
\* the files the user can pick: parsed CSV files, whose rows are objects
AppFilesA ==
    FilesOver("a.csv", HeadersA,
              RowsOver(HeadersA, KeyValuesA, {<<"x", "y">>}) \ {Null},
              MaxAppRows)

AppFilesB ==
    FilesOver("b.csv", HeadersB,
              RowsOver(HeadersB, KeyValuesB, {<<"x", "y">>}) \ {Null},
              MaxAppRows)

\* the rule switches and the field lists the user edits
ToggledRules == {"trimWhitespace"}

ToggledLists == {"removeLeadingZerosFieldsA"}

\* the state App is constructed with
AppConfig == [keyMappings |-> <<>>, rules |-> DefaultRules]

AppUnchanged ==
    UNCHANGED <<clock, tzBehindUTC, lenientIso, pc, observer, procA, procB,
                prevRun, nvIn, nvOut>>

\* setConfig(next), and the effect that copies config into configRef.current
setConfig(next) ==
    /\ config' = next
    /\ configRef' = next

ConfigPanelShown == fileA # Null /\ fileB # Null

\* onFileLoaded of the Source A uploader
LoadFileA ==
    /\ Len(logs) < MaxLogs
    /\ \E f \in AppFilesA :
           /\ fileA' = f
           /\ logs' = Append(logs, LogEntry("info", <<"Loaded Source A",
                                                      f.name>>))
    /\ UNCHANGED <<fileB, config, configRef, isProcessing, isLoading,
                   result, pendingRun, pendingLoading>>
    /\ AppUnchanged

\* onFileLoaded of the Source B uploader
LoadFileB ==
    /\ Len(logs) < MaxLogs
    /\ \E f \in AppFilesB :
           /\ fileB' = f
           /\ logs' = Append(logs, LogEntry("info", <<"Loaded Source B",
                                                      f.name>>))
    /\ UNCHANGED <<fileA, config, configRef, isProcessing, isLoading,
                   result, pendingRun, pendingLoading>>
    /\ AppUnchanged

\* Math.random().toString(36).substr(2, 9): an id no mapping has
FreshId ==
    CHOOSE k \in 1..(Len(config.keyMappings) + 1) :
        \A i \in 1..Len(config.keyMappings) : config.keyMappings[i].id # k

\* ConfigPanel addMapping, the selected columns being the first headers
addMapping ==
    /\ ConfigPanelShown
    /\ Len(config.keyMappings) < MaxMappings
    /\ fileA.headers # <<>> /\ fileB.headers # <<>>
    /\ setConfig([config EXCEPT !.keyMappings =
           Append(@, KeyMapping(FreshId, fileA.headers[1],
                                fileB.headers[1]))])
    /\ UNCHANGED <<fileA, fileB, logs, isProcessing, isLoading, result,
                   pendingRun, pendingLoading>>
    /\ AppUnchanged

\* prev.keyMappings.filter(k => k.id !== id)
withoutMapping(keyMappings, id) ==
    LET Other(k) == k.id # id
    IN  SelectSeq(keyMappings, Other)

\* ConfigPanel removeMapping(id)
removeMapping ==
    /\ ConfigPanelShown
    /\ \E i \in 1..Len(config.keyMappings) :
           setConfig([config EXCEPT !.keyMappings =
               withoutMapping(@, config.keyMappings[i].id)])
    /\ UNCHANGED <<fileA, fileB, logs, isProcessing, isLoading, result,
                   pendingRun, pendingLoading>>
    /\ AppUnchanged

\* ConfigPanel toggleRule(key)
toggleRule ==
    /\ ConfigPanelShown
    /\ \E key \in ToggledRules :
           setConfig([config EXCEPT !.rules[key] = ~@])
    /\ UNCHANGED <<fileA, fileB, logs, isProcessing, isLoading, result,
                   pendingRun, pendingLoading>>
    /\ AppUnchanged

\* exists ? currentList.filter(f => f !== field) : [...currentList, field]
toggledList(currentList, field) ==
    IF Includes(currentList, field)
    THEN LET Other(f) == f # field IN SelectSeq(currentList, Other)
    ELSE Append(currentList, field)

\* ConfigPanel toggleFieldInList(listKey, field)
toggleFieldInList ==
    /\ ConfigPanelShown
    /\ \E listKey \in ToggledLists :
           setConfig([config EXCEPT !.rules[listKey] =
               toggledList(@, fileA.headers[1])])
    /\ UNCHANGED <<fileA, fileB, logs, isProcessing, isLoading, result,
                   pendingRun, pendingLoading>>
    /\ AppUnchanged

\* faulty variant of RunEnabled: disabled={!fileA || !fileB}
RunEnabledWhileProcessing == fileA # Null /\ fileB # Null

\* the Run button is disabled={!fileA || !fileB || isProcessing}
RunEnabled == fileA # Null /\ fileB # Null /\ ~isProcessing

\* handleRun refuses: addLog("error", ...) and return
refuseRun(message) ==
    /\ Len(logs) < MaxLogs
    /\ logs' = Append(logs, LogEntry("error", <<message>>))
    /\ UNCHANGED <<isProcessing, isLoading, result, pendingRun>>

\* faulty variant of startRun: setResult(null) is left out
startRunKeepingResult ==
    /\ pendingLoading < MaxLoadingTimers
    /\ isProcessing' = TRUE
    /\ isLoading' = TRUE
    /\ logs' = <<LogEntry("info", <<"Initializing comparison engine...">>)>>
    /\ result' = result
    /\ pendingRun' = Append(pendingRun, [fileA |-> fileA, fileB |-> fileB,
                                         config |-> config])

\* handleRun accepts: the flags, the cleared logs and result, and
\* setTimeout(..., 100) with the fileA, fileB and config of this render in
\* its closure
startRun ==
    /\ pendingLoading < MaxLoadingTimers
    /\ isProcessing' = TRUE
    /\ isLoading' = TRUE
    /\ logs' = <<LogEntry("info", <<"Initializing comparison engine...">>)>>
    /\ result' = Null
    /\ pendingRun' = Append(pendingRun, [fileA |-> fileA, fileB |-> fileB,
                                         config |-> config])

\* handleRun, on a click of the Run button
handleRun ==
    /\ RunEnabled
    /\ IF fileA = Null \/ fileB = Null
       THEN refuseRun("Both source files must be loaded.")
       ELSE IF Len(config.keyMappings) = 0
       THEN refuseRun("At least one key mapping is required.")
       ELSE startRun
    /\ UNCHANGED <<fileA, fileB, config, configRef, pendingLoading>>
    /\ AppUnchanged

\* faulty variant of finishRun: setIsLoading(false) is called after a run
\* of a second or more only, no timer is set after a shorter one
finishRunWithoutTimer(underSecond) ==
    /\ isProcessing' = FALSE
    /\ IF underSecond
       THEN UNCHANGED <<isLoading, pendingLoading>>
       ELSE isLoading' = FALSE /\ UNCHANGED pendingLoading
    /\ pendingRun' = Tail(pendingRun)

\* the finally block: setIsProcessing(false), and setIsLoading(false) now or
\* by a timer when the run took less than a second
finishRun(underSecond) ==
    /\ isProcessing' = FALSE
    /\ IF underSecond
       THEN pendingLoading' = pendingLoading + 1 /\ UNCHANGED isLoading
       ELSE isLoading' = FALSE /\ UNCHANGED pendingLoading
    /\ pendingRun' = Tail(pendingRun)

\* faulty variant of currentConfig: the config of the render of the click
capturedConfig == Head(pendingRun).config

\* const currentConfig = configRef.current
currentConfig == configRef

\* setResult(res), after the addLog calls of runComparison
returnRun(run, pA, pB, res) ==
    /\ result' = res
    /\ logs' = logs \o runComparisonLogs(run.fileA, run.fileB, currentConfig,
                                         pA, pB, res)

\* the addLog calls of a call of runComparison that throws while the rows of
\* the missing keys are collected, and the addLog call of the catch block;
\* the text of e.message is left out
throwRun(run, pA, pB) ==
    /\ Len(missingKeys(pA, pB)) + Len(missingKeys(pB, pA)) > 0
    /\ logs' = logs \o startLogs(currentConfig)
                    \o processSourceLogs(run.fileA, pA, TRUE)
                    \o processSourceLogs(run.fileB, pB, FALSE)
                    \o <<LogEntry("info", <<"Comparing keys...">>),
                         LogEntry("error", <<"Critical Failure">>)>>
    /\ UNCHANGED result

compareRun(run, pA, pB) ==
    returnRun(run, pA, pB,
              comparisonResult(run.fileA, run.fileB, pA, pB, clock))

\* the callback of setTimeout(..., 100) in handleRun: runComparison on the
\* files of its closure and on configRef.current, returning
RunTimeout ==
    /\ pendingRun # <<>>
    /\ compareRun(Head(pendingRun),
                  processSource(Head(pendingRun).fileA, currentConfig, TRUE),
                  processSource(Head(pendingRun).fileB, currentConfig, FALSE))
    /\ \E underSecond \in BOOLEAN : finishRun(underSecond)
    /\ UNCHANGED <<fileA, fileB, config, configRef>>
    /\ AppUnchanged

\* the same callback when runComparison throws.  addLog of App does not
\* throw and a parsed file holds no null row; what can throw is
\* rowsMissingInB.push(...rows) and rowsMissingInA.push(...rows), a
\* RangeError when rows has more elements than the engine accepts as
\* arguments of one call, a limit of the engine the model leaves open.
RunTimeoutThrows ==
    /\ pendingRun # <<>>
    /\ throwRun(Head(pendingRun),
                processSource(Head(pendingRun).fileA, currentConfig, TRUE),
                processSource(Head(pendingRun).fileB, currentConfig, FALSE))
    /\ \E underSecond \in BOOLEAN : finishRun(underSecond)
    /\ UNCHANGED <<fileA, fileB, config, configRef>>
    /\ AppUnchanged

\* the callback of setTimeout(() => setIsLoading(false), 1000 - elapsed)
LoadingTimeout ==
    /\ pendingLoading > 0
    /\ pendingLoading' = pendingLoading - 1
    /\ isLoading' = FALSE
    /\ UNCHANGED <<fileA, fileB, config, configRef, logs, isProcessing,
                   result, pendingRun>>
    /\ AppUnchanged

\* faulty variant of handleReset: the rules go back to their defaults with
\* the key mappings
handleResetWithRules ==
    /\ fileA' = Null
    /\ fileB' = Null
    /\ result' = Null
    /\ logs' = <<>>
    /\ setConfig([keyMappings |-> <<>>, rules |-> DefaultRules])
    /\ UNCHANGED <<isProcessing, isLoading, pendingRun, pendingLoading>>
    /\ AppUnchanged

\* handleReset, on a click of Reset
handleReset ==
    /\ fileA' = Null
    /\ fileB' = Null
    /\ result' = Null
    /\ logs' = <<>>
    /\ setConfig([config EXCEPT !.keyMappings = <<>>])
    /\ UNCHANGED <<isProcessing, isLoading, pendingRun, pendingLoading>>
    /\ AppUnchanged

InitApp ==
    /\ clock = 0
    /\ tzBehindUTC = FALSE
    /\ lenientIso = FALSE
    /\ fileA = Null
    /\ fileB = Null
    /\ config = AppConfig
    /\ configRef = AppConfig
    /\ logs = <<>>
    /\ isProcessing = FALSE
    /\ isLoading = FALSE
    /\ result = Null
    /\ pendingRun = <<>>
    /\ pendingLoading = 0
    /\ pc = "idle"
    /\ observer = "returns"
    /\ procA = NoProc
    /\ procB = NoProc
    /\ prevRun = Null
    /\ nvIn = Null
    /\ nvOut = <<>>

NextApp ==
    \/ LoadFileA
    \/ LoadFileB
    \/ addMapping
    \/ removeMapping
    \/ toggleRule
    \/ toggleFieldInList
    \/ handleRun
    \/ RunTimeout
    \/ RunTimeoutThrows
    \/ LoadingTimeout
    \/ handleReset

SpecApp == InitApp /\ [][NextApp]_vars

\* the step is the deferred callback of handleRun
IsRunTimeoutStep == pendingRun # <<>> /\ pendingRun' = Tail(pendingRun)

\* the timers of the browser fire: a callback that setTimeout has scheduled
\* is run once its delay has passed.  The deferred run is taken off
\* pendingRun by RunTimeout and RunTimeoutThrows and by no other step, and
\* one of them can be taken whenever pendingRun holds a callback.
SpecAppFair ==
    /\ InitApp
    /\ [][NextApp]_vars
    /\ WF_pendingRun(IsRunTimeoutStep)
    /\ WF_vars(LoadingTimeout)

\* a log entry of processSource
IsProcessingLog(entry) == entry.message[1] = "Processing"

\* C3 (empty keyMappings are rejected): a comparison that runs while the
\* list of key mappings is empty processes no row and produces no result,
\* whatever the user did between the Run click and the deferred run.
C3_EmptyMappingsRejected ==
    [][(IsRunTimeoutStep /\ configRef.keyMappings = <<>>)
          => /\ result' = Null
             /\ \A i \in 1..Len(logs') : ~IsProcessingLog(logs'[i])]_vars

\* the last entry of logs is the failure message of the catch block
FailureLogged(entries) ==
    /\ entries # <<>>
    /\ entries[Len(entries)] = LogEntry("error", <<"Critical Failure">>)

\* res is what runComparison returns on the files of the pending run
ResultOfRun(res, run) ==
    res = runComparison(run.fileA, run.fileB, configRef, clock)

RunUnder(run, cfg) == runComparison(run.fileA, run.fileB, cfg, clock)

\* C20 (fresh configuration): the comparison that the deferred callback of a
\* Run click executes, when it returns, is the comparison of the files of
\* the click under the configuration that is current when the callback
\* fires, whatever the configuration was at the click.
C20_FreshConfiguration ==
    [][(IsRunTimeoutStep /\ result' # Null) =>
           /\ result' = RunUnder(Head(pendingRun), config)
           /\ logs' = logs \o runComparisonLogs(
                                  Head(pendingRun).fileA,
                                  Head(pendingRun).fileB, config,
                                  processSource(Head(pendingRun).fileA,
                                                config, TRUE),
                                  processSource(Head(pendingRun).fileB,
                                                config, FALSE),
                                  result')]_vars

\* C20: a run is pending and the configuration was edited after its click,
\* in a way that changes what the comparison returns
C20_Witness ==
    /\ pendingRun # <<>>
    /\ Head(pendingRun).config # config
    /\ RunUnder(Head(pendingRun), config)
           # RunUnder(Head(pendingRun), Head(pendingRun).config)

\* a step that unloads a loaded file, which is what Reset alone does
IsResetStep ==
    \/ fileA # Null /\ fileA' = Null
    \/ fileB # Null /\ fileB' = Null

\* C23 (Reset frame): Reset clears fileA, fileB, result, logs and the key
\* mappings and leaves every normalization rule as it was: trimWhitespace,
\* the four per-side flags and the four field lists.
C23_ResetFrame ==
    [][IsResetStep =>
           /\ fileA' = Null /\ fileB' = Null
           /\ result' = Null
           /\ logs' = <<>>
           /\ config'.keyMappings = <<>>
           /\ config'.rules = config.rules
           /\ configRef' = config']_vars

\* C23: Reset has executed on rules the user had edited: no file is loaded,
\* which after an edit of the rules only Reset brings about, and the rules
\* are not the ones App starts with
C23_Witness ==
    /\ fileA = Null /\ fileB = Null
    /\ logs = <<>>
    /\ config.keyMappings = <<>>
    /\ config.rules # DefaultRules
    /\ ~config.rules.trimWhitespace
    /\ Includes(config.rules.removeLeadingZerosFieldsA, "DOC_NUMBER") = FALSE

\* a log entry of a call of runComparison or of the catch block of the run
IsRunLog(entry) ==
    entry.message[1] \in {"Starting reconciliation process...",
                          "Config Active: Remove Zeros", "Processing",
                          "Removed duplicate rows", "Comparing keys...",
                          "Comparison completed",
                          "Found rows in Source A missing from B",
                          "Found rows in Source B missing from A",
                          "Critical Failure"}

\* C24 (no result after Reset): once Reset has executed, result stays null
\* and logs gain no run message until a later Run click.  A file is
\* unloaded by Reset alone and a Run click needs both files loaded, so in a
\* state where a file is not loaded no Run click has followed the last
\* Reset: there result is null and logs hold no run message.
C24_NoResultAfterReset ==
    (fileA = Null \/ fileB = Null) =>
        /\ result = Null
        /\ \A i \in 1..Len(logs) : ~IsRunLog(logs[i])

\* C25 (a started run finishes): after a Run click that passes validation,
\* isProcessing eventually becomes false and isLoading eventually becomes
\* false, whether runComparison returns or throws.
C25_RunFinishes ==
    /\ isProcessing ~> ~isProcessing
    /\ isLoading ~> ~isLoading

\* C25: a run that was started has finished: a result is shown, no callback
\* is left and both flags are false
C25_Witness ==
    /\ result # Null
    /\ pendingRun = <<>> /\ pendingLoading = 0
    /\ ~isProcessing /\ ~isLoading

\* C26 (at most one comparison at a time): at most one deferred comparison
\* callback is scheduled at any time, and while it is scheduled isProcessing
\* is true, which disables the Run button, so that no second callback is
\* scheduled before the first has completed.
C26_OnePendingRun ==
    /\ Len(pendingRun) <= 1
    /\ pendingRun # <<>> => isProcessing

\* C26: a comparison is pending while both files are loaded and a key
\* mapping is set, so that a Run click would pass validation if the button
\* were not disabled
C26_Witness ==
    /\ Len(pendingRun) = 1
    /\ isProcessing
    /\ fileA # Null /\ fileB # Null
    /\ config.keyMappings # <<>>

====
